---------------------------- MODULE Spec2Model ----------------------------
(***************************************************************************)
(* Model of custom_components/niwa_tides/sensor.py: the NiwaTidesInfoSensor *)
(* evaluation cycle (update, calculate_tide, calculate_boat_windows) and    *)
(* the two binary sensors that read its fields.                             *)
(*                                                                          *)
(* Time is counted in whole units; UnitsPerHour of them make an hour.       *)
(* Heights of the API are in millimetres (1004 stands for 1.004 m), the     *)
(* rounded heights the sensor stores are in centimetres.                    *)
(* An optional value (Python None or an object) is a sequence of length 0   *)
(* or 1.                                                                    *)
(***************************************************************************)
EXTENDS Integers, Sequences, FiniteSets, TLC

None == <<>>
Some(x) == <<x>>

(* Body(x) with x evaluated once *)
With(x, Body(_)) == CHOOSE y \in {Body(v) : v \in {x}} : TRUE

(* ------------------------------ bounds --------------------------------- *)
UnitsPerHour == 2
MaxTime == 17
LongLen == 20

(* ------------------------- program constants --------------------------- *)
HOURS_BEFORE_LOW_TIDE == 2
HOURS_AFTER_LOW_TIDE == 2
UPCOMING_LIMIT == 14

timedelta(hours) == hours * UnitsPerHour

(* offset of the host's local time from UTC, applied by astimezone() *)
UtcOffset == 12 * UnitsPerHour
StartTime == UtcOffset

(* ------------------------- the prediction source ----------------------- *)
(* UTC instants at which the source publishes extrema, strictly ascending *)
TimeGrid == <<2, 6, 11, 15>>

(* heights published at those instants: high and low alternating, and a    *)
(* fall in two steps whose last two heights round to the same centimetre   *)
Alternating == <<2000, 1000, 2000, 1000>>

Patterns == {Alternating, <<2000, 1004, 1000, 2000>>}

BadTime == -1
BadValue == -1

(* a response covers a contiguous stretch of the grid: entries a .. a+n-1 *)
Runs == {r \in (1..Len(TimeGrid)) \X (1..Len(TimeGrid)) : r[1] + r[2] - 1 <= Len(TimeGrid)}

RunValues(a, n, p) ==
    [i \in 1..n |-> [time |-> TimeGrid[a + i - 1], value |-> p[a + i - 1]]]

(* a long response: LongLen extrema every two hours from the first        *)
(* instant of the grid, the second and third of equal height               *)
LongSet ==
    [i \in 1..LongLen |->
        [time |-> TimeGrid[1] + timedelta(2) * (i - 1),
         value |-> IF i = 2 \/ (i > 2 /\ i % 2 = 1) THEN 1000 ELSE 2000]]

WellFormedSets ==
    {<<>>, LongSet} \cup {RunValues(r[1], r[2], p) : r \in Runs, p \in Patterns}

(* records whose timestamp does not parse or whose value is not a number *)
MalformedBase == {RunValues(1, Len(TimeGrid), Alternating)}

MalformedSets ==
    UNION {{[s EXCEPT ![3].time = BadTime], [s EXCEPT ![3].value = BadValue]} :
           s \in MalformedBase}

(* what requests.get / req.json can produce *)
Body(hasValues, values) == [hasValues |-> hasValues, values |-> values]

Responses ==
    {[kind |-> k, body |-> None] : k \in {"exception", "non200", "badjson", "null"}}
    \cup {[kind |-> "json", body |-> Some(Body(FALSE, <<>>))]}
    \cup {[kind |-> "json", body |-> Some(Body(TRUE, v))] : v \in WellFormedSets \cup MalformedSets}

NoResponse == [kind |-> "exception", body |-> None]

(* units by which the clock advances between the readings of lines 215    *)
(* and 264 (the fetch lies between them) and of lines 264 and 362          *)
Drifts == {<<0, 0>>, <<1, 0>>, <<0, 1>>}

(* ------------------------------ conversions ---------------------------- *)
TideInfo(time, value) == [time |-> time, value |-> value]

(* strptime(...).replace(tzinfo=utc).astimezone().replace(tzinfo=None) *)
ParseRaises(v) == v.time = BadTime
ParseTime(v) == v.time + UtcOffset

(* round(float(v["value"]), 2): millimetres to centimetres *)
FloatRaises(v) == v.value = BadValue
Round2(mm) == (mm + 5) \div 10

(* datetime.isoformat() and datetime.fromisoformat() *)
IsoFormat(t) == [iso |-> t]
FromIsoFormat(s) == s.iso

(* a comparison or subtraction of two JSON values raises TypeError unless  *)
(* both are numbers                                                        *)
ArithRaises(a, b) == a = BadValue \/ b = BadValue

RoundDiv(a, b) == (2 * a + b) \div (2 * b)

(* (1 - cos(pi * e / s)) / 2 scaled by 100000, for 0 <= e < s <= 12 *)
ProgressTable == <<
    <<0>>,
    <<0, 50000>>,
    <<0, 25000, 75000>>,
    <<0, 14645, 50000, 85355>>,
    <<0, 9549, 34549, 65451, 90451>>,
    <<0, 6699, 25000, 50000, 75000, 93301>>,
    <<0, 4952, 18826, 38874, 61126, 81174, 95048>>,
    <<0, 3806, 14645, 30866, 50000, 69134, 85355, 96194>>,
    <<0, 3015, 11698, 25000, 41318, 58682, 75000, 88302, 96985>>,
    <<0, 2447, 9549, 20611, 34549, 50000, 65451, 79389, 90451, 97553>>,
    <<0, 2025, 7937, 17257, 29229, 42884, 57116, 70771, 82743, 92063, 97975>>,
    <<0, 1704, 6699, 14645, 25000, 37059, 50000, 62941, 75000, 85355, 93301, 98296>> >>

TideRatio_NotHalved(elapsed, span) == 2 * ProgressTable[span][elapsed + 1]

(* line 313: (1 - cos(pi * elapsed / span)) / 2 *)
TideRatio(elapsed, span) == ProgressTable[span][elapsed + 1]

(* ------------------------------- state --------------------------------- *)
VARIABLES now, self, cycle, platform

vars == <<now, self, cycle, platform>>

(* NiwaTidesInfoSensor.__init__ *)
InitSelf ==
    [data |-> None,
     tide_percent |-> None,
     tide_phase |-> None,
     current_tide_level |-> None,
     last_tide |-> None,
     next_tide |-> None,
     next_high_tide |-> None,
     next_low_tide |-> None,
     upcoming_tides |-> <<>>,
     last_update_at |-> None,
     safe_to_launch |-> FALSE,
     safe_window_start |-> None,
     safe_window_end |-> None,
     next_safe_window_start |-> None,
     must_return_by |-> None]

(* what the last operation did: which operation, whether it fetched, how   *)
(* calculate_tide ended, the instants read at lines 215 (ref), 264 (t) and *)
(* 362 (bwNow), the instant it returned, the boat-window branch it took,   *)
(* where an exception was raised and which functions it left; pre: whether *)
(* a PredictionSet was held and the next_tide held when it began           *)
NoCycle ==
    [op |-> "init", fetch |-> "none", tide |-> "none", ref |-> None, t |-> None,
     bwNow |-> None, pre |-> [held |-> FALSE, next_tide |-> None],
     end |-> None, branch |-> "none", raised |-> {}, escaped |-> {}]

(* NiwaTidesInfoSensor.available *)
available == self.data # None

(* a PredictionSet is held: self.data is a body with a non-empty "values" *)
HoldsSet(s) == s.data # None /\ s.data[1].hasValues /\ s.data[1].values # <<>>

(* ------------------------ calculate_boat_windows ----------------------- *)
RECURSIVE FindNextLow_AnyTime(_, _, _)
FindNextLow_AnyTime(upcoming, i, n) ==
    IF i > Len(upcoming) THEN None
    ELSE IF i > 1 /\ upcoming[i].value < upcoming[i - 1].value
         THEN Some(FromIsoFormat(upcoming[i].time))
         ELSE FindNextLow_AnyTime(upcoming, i + 1, n)

(* lines 395-407: the time of the first entry that is lower than its      *)
(* predecessor and later than n                                            *)
RECURSIVE FindNextLow(_, _, _)
FindNextLow(upcoming, i, n) ==
    IF i > Len(upcoming) THEN None
    ELSE IF /\ i > 1
            /\ upcoming[i].value < upcoming[i - 1].value
            /\ FromIsoFormat(upcoming[i].time) > n
         THEN Some(FromIsoFormat(upcoming[i].time))
         ELSE FindNextLow(upcoming, i + 1, n)

(* lines 365-366 *)
WindowStart(s) == s.next_low_tide[1].time - timedelta(HOURS_BEFORE_LOW_TIDE)
WindowEnd_Before(s) == s.next_low_tide[1].time - timedelta(HOURS_AFTER_LOW_TIDE)

WindowEnd(s) == s.next_low_tide[1].time + timedelta(HOURS_AFTER_LOW_TIDE)

InWindow_Exclusive(window_start, window_end, n) == window_start < n /\ n < window_end

(* line 369: window_start <= now <= window_end *)
InWindow(window_start, window_end, n) == window_start <= n /\ n <= window_end

InsideBranch_NoDeadline(s, window_start, window_end) ==
    [s EXCEPT !.safe_to_launch = TRUE,
              !.safe_window_start = Some(window_start),
              !.safe_window_end = Some(window_end),
              !.next_safe_window_start = None]

(* lines 370-382; the loop over upcoming_tides assigns nothing *)
InsideBranch(s, window_start, window_end) ==
    [s EXCEPT !.safe_to_launch = TRUE,
              !.safe_window_start = Some(window_start),
              !.safe_window_end = Some(window_end),
              !.must_return_by = Some(window_end),
              !.next_safe_window_start = None]

BeforeBranch_KeepDeadline(s, window_start, window_end) ==
    [s EXCEPT !.safe_to_launch = FALSE,
              !.safe_window_start = Some(window_start),
              !.safe_window_end = Some(window_end),
              !.next_safe_window_start = Some(window_start)]

(* lines 385-392 *)
BeforeBranch(s, window_start, window_end) ==
    [s EXCEPT !.safe_to_launch = FALSE,
              !.safe_window_start = Some(window_start),
              !.safe_window_end = Some(window_end),
              !.next_safe_window_start = Some(window_start),
              !.must_return_by = None]

(* lines 385, 393-414 *)
AfterBranch(s, n) ==
    LET low == FindNextLow(s.upcoming_tides, 1, n) IN
    IF low # None
    THEN [s EXCEPT !.safe_to_launch = FALSE,
                   !.safe_window_start = Some(low[1] - timedelta(HOURS_BEFORE_LOW_TIDE)),
                   !.safe_window_end = Some(low[1] + timedelta(HOURS_AFTER_LOW_TIDE)),
                   !.next_safe_window_start =
                       Some(low[1] - timedelta(HOURS_BEFORE_LOW_TIDE)),
                   !.must_return_by = None]
    ELSE [s EXCEPT !.safe_to_launch = FALSE,
                   !.safe_window_start = None,
                   !.safe_window_end = None,
                   !.next_safe_window_start = None,
                   !.must_return_by = None]

(* which branch of calculate_boat_windows runs for the reading n of the clock *)
BoatBranch(s, n) ==
    IF s.next_low_tide = None THEN "noop"
    ELSE IF InWindow(WindowStart(s), WindowEnd(s), n) THEN "inside"
    ELSE IF n < WindowStart(s) THEN "before"
    ELSE "after"

calculate_boat_windows_Reset(s, n) ==
    IF s.next_low_tide = None
    THEN [s EXCEPT !.safe_to_launch = FALSE,
                   !.safe_window_start = None,
                   !.safe_window_end = None,
                   !.next_safe_window_start = None,
                   !.must_return_by = None]
    ELSE IF InWindow(WindowStart(s), WindowEnd(s), n)
         THEN InsideBranch(s, WindowStart(s), WindowEnd(s))
    ELSE IF n < WindowStart(s)
         THEN BeforeBranch(s, WindowStart(s), WindowEnd(s))
    ELSE AfterBranch(s, n)

(* lines 356-421; nothing in the body can raise on the values the sensor   *)
(* stores, so the handler of lines 420-421 is never entered                *)
calculate_boat_windows(s, n) ==
    IF s.next_low_tide = None THEN s
    ELSE IF InWindow(WindowStart(s), WindowEnd(s), n)
         THEN InsideBranch(s, WindowStart(s), WindowEnd(s))
    ELSE IF n < WindowStart(s)
         THEN BeforeBranch(s, WindowStart(s), WindowEnd(s))
    ELSE AfterBranch(s, n)

(* ---------------------------- calculate_tide --------------------------- *)
(* lines 267-273: the loop that collects the future extrema *)
RECURSIVE FutureFrom(_, _, _, _)
FutureFrom(values, i, t, future) ==
    IF i > Len(values) THEN [exc |-> FALSE, future |-> future]
    ELSE IF ParseRaises(values[i]) THEN [exc |-> TRUE, future |-> future]
    ELSE IF ParseTime(values[i]) > t
         THEN IF FloatRaises(values[i]) THEN [exc |-> TRUE, future |-> future]
              ELSE FutureFrom(values, i + 1, t,
                       Append(future, [time |-> IsoFormat(ParseTime(values[i])),
                                       value |-> Round2(values[i].value)]))
    ELSE FutureFrom(values, i + 1, t, future)

Truncate_Unlimited(future) == future

(* future[:14] *)
Truncate(future) ==
    IF Len(future) <= UPCOMING_LIMIT THEN future ELSE SubSeq(future, 1, UPCOMING_LIMIT)

(* lines 266-278: the list, and whether the handler of line 276 ran *)
UpcomingReturn(r) ==
    IF r.exc THEN [list |-> <<>>, exc |-> TRUE]
    ELSE [list |-> Truncate(r.future), exc |-> FALSE]

Upcoming(values, t) == With(FutureFrom(values, 1, t, <<>>), UpcomingReturn)

IsFuture_AtOrAfter(parsed_time, t) == parsed_time >= t

(* line 288: parsed_time > t *)
IsFuture(parsed_time, t) == parsed_time > t

ScanInit ==
    [last_tide |-> None, next_tide |-> None, next_high_tide |-> None,
     next_low_tide |-> None, exc |-> FALSE, stop |-> FALSE, past |-> 0]

PastNext_NoBreak(st, info) ==
    IF st.next_high_tide = None
    THEN [st EXCEPT !.next_high_tide = Some(info), !.past = @ + 1]
    ELSE [st EXCEPT !.next_low_tide = Some(info), !.past = @ + 1]

(* lines 298-303: an entry read after next_tide was found fills            *)
(* next_high_tide if that is still None and next_low_tide otherwise, and   *)
(* ends the loop; past counts the entries read this way                    *)
PastNext(st, info) ==
    IF st.next_high_tide = None
    THEN [st EXCEPT !.next_high_tide = Some(info), !.past = @ + 1, !.stop = TRUE]
    ELSE [st EXCEPT !.next_low_tide = Some(info), !.past = @ + 1, !.stop = TRUE]

(* lines 286-303: one iteration of the bracket scan *)
ScanStep(st, value, t) ==
    IF ParseRaises(value) THEN [st EXCEPT !.exc = TRUE]
    ELSE LET parsed_time == ParseTime(value)
             info == TideInfo(parsed_time, value.value)
         IN
         IF st.next_tide = None
         THEN IF IsFuture(parsed_time, t)
              THEN IF st.last_tide # None
                   THEN IF ArithRaises(info.value, st.last_tide[1].value)
                        THEN [st EXCEPT !.next_tide = Some(info), !.exc = TRUE]
                        ELSE IF info.value > st.last_tide[1].value
                        THEN [st EXCEPT !.next_tide = Some(info),
                                        !.next_high_tide = Some(info)]
                        ELSE [st EXCEPT !.next_tide = Some(info),
                                        !.next_low_tide = Some(info)]
                   ELSE [st EXCEPT !.next_tide = Some(info)]
              ELSE [st EXCEPT !.last_tide = Some(info)]
         ELSE PastNext(st, info)

(* lines 285-303: the loop, left by break or by an exception *)
RECURSIVE Scan(_, _, _, _)
Scan(values, i, t, st) ==
    IF i > Len(values) \/ st.stop \/ st.exc THEN st
    ELSE Scan(values, i + 1, t, ScanStep(st, values[i], t))

(* lines 254-261 and 347-354 *)
ClearAll(s) ==
    [s EXCEPT !.tide_percent = None,
              !.current_tide_level = None,
              !.last_tide = None,
              !.next_tide = None,
              !.next_high_tide = None,
              !.next_low_tide = None,
              !.tide_phase = None,
              !.upcoming_tides = <<>>]

(* lines 305-310 *)
ClearNoBracket(s) ==
    [s EXCEPT !.tide_percent = None,
              !.current_tide_level = None,
              !.tide_phase = None]

Phase_NoHigh(percent, last_value, next_value) ==
    IF percent < 5 THEN "low"
    ELSE IF last_value < next_value THEN "increasing"
    ELSE "decreasing"

(* lines 330-337 *)
Phase(percent, last_value, next_value) ==
    IF percent < 5 THEN "low"
    ELSE IF percent > 95 THEN "high"
    ELSE IF last_value < next_value THEN "increasing"
    ELSE "decreasing"

(* lines 313-323: height in centimetres and percent, from the half-cosine *)
Height(last, next, t) ==
    RoundDiv(last.value * 100000
               + (next.value - last.value) * TideRatio(t - last.time, next.time - last.time),
             1000000)

Percent(last, next, t) ==
    LET tide_ratio == TideRatio(t - last.time, next.time - last.time) IN
    IF last.value > next.value
    THEN RoundDiv(100000 - tide_ratio, 1000)
    ELSE RoundDiv(tide_ratio, 1000)

(* lines 312-328, 330-337: the assignments after a bracket was found *)
StoreTide(s, st, t) ==
    [s EXCEPT !.tide_percent = Some(Percent(st.last_tide[1], st.next_tide[1], t)),
              !.current_tide_level = Some(Height(st.last_tide[1], st.next_tide[1], t)),
              !.last_tide = st.last_tide,
              !.next_tide = st.next_tide,
              !.next_high_tide = st.next_high_tide,
              !.next_low_tide = st.next_low_tide,
              !.tide_phase = Some(Phase(Percent(st.last_tide[1], st.next_tide[1], t),
                                        st.last_tide[1].value, st.next_tide[1].value))]

(* the body of calculate_tide's try block (lines 252-343); t is the clock  *)
(* read at line 264 and n the one read by calculate_boat_windows           *)
(* (line 362).  Result: the fields, whether an exception left the body,    *)
(* how the body ended ("nodata": lines 252-262, "nobracket": lines         *)
(* 305-310, "stored": lines 312-343, "raised"), the boat-window branch     *)
(* that ran and whether the handler of line 276 ran.                       *)
TideResult(s1, st, upexc, t, n) ==
    IF st.exc
    THEN [self |-> s1, exc |-> TRUE, outcome |-> "raised", branch |-> "none",
          upexc |-> upexc]
    ELSE IF st.last_tide = None \/ st.next_tide = None
    THEN [self |-> ClearNoBracket(s1), exc |-> FALSE, outcome |-> "nobracket",
          branch |-> "none", upexc |-> upexc]
    ELSE IF ArithRaises(st.last_tide[1].value, st.next_tide[1].value)
    THEN [self |-> s1, exc |-> TRUE, outcome |-> "raised", branch |-> "none",
          upexc |-> upexc]
    ELSE With(StoreTide(s1, st, t),
              LAMBDA s2 : [self |-> calculate_boat_windows(s2, n), exc |-> FALSE,
                           outcome |-> "stored", branch |-> BoatBranch(s2, n),
                           upexc |-> upexc])

TideBody(s, t, n) ==
    IF s.data = None \/ ~s.data[1].hasValues
    THEN [self |-> ClearAll(s), exc |-> FALSE, outcome |-> "nodata", branch |-> "none",
          upexc |-> FALSE]
    ELSE With(Upcoming(s.data[1].values, t),
              LAMBDA up :
                  With(Scan(s.data[1].values, 1, t, ScanInit),
                       LAMBDA st :
                           TideResult([s EXCEPT !.upcoming_tides = up.list],
                                      st, up.exc, t, n)))

TideHandler_Reraise(r) ==
    [self |-> r.self, escaped |-> TRUE, outcome |-> "raised",
     branch |-> r.branch, upexc |-> r.upexc]

(* lines 345-354: the handler; an exception never leaves calculate_tide *)
TideHandler(r) ==
    [self |-> ClearAll(r.self), escaped |-> FALSE, outcome |-> "raised",
     branch |-> r.branch, upexc |-> r.upexc]

TideReturn(r) ==
    IF r.exc THEN TideHandler(r)
    ELSE [self |-> r.self, escaped |-> FALSE, outcome |-> r.outcome,
          branch |-> r.branch, upexc |-> r.upexc]

calculate_tide(s, t, n) == With(TideBody(s, t, n), TideReturn)

(* -------------------------------- update ------------------------------ *)
NeedFetch_Always(s, r) == TRUE

NeedFetch_OnlyWithoutData(s, r) == s.data = None

(* line 215 *)
NeedFetch(s, r) ==
    s.data = None \/ s.next_tide = None \/ r > s.next_tide[1].time

(* where an exception was raised during calculate_tide *)
Raised(c) ==
    (IF c.outcome = "raised" THEN {"calculate_tide"} ELSE {})
    \cup (IF c.upexc THEN {"upcoming"} ELSE {})

FetchFailed_KeepData(s) == s

(* lines 227, 240, 243 *)
FetchFailed(s) == [s EXCEPT !.data = None]

(* lines 235-243: calculate_tide has run on the fetched body; an exception *)
(* that left it would be caught at line 241                                *)
AfterFetch(c) ==
    IF c.escaped
    THEN [self |-> FetchFailed(c.self), fetch |-> "ok", tide |-> c.outcome,
          branch |-> c.branch, raised |-> Raised(c), escaped |-> {"calculate_tide"}]
    ELSE [self |-> c.self, fetch |-> "ok", tide |-> c.outcome, branch |-> c.branch,
          raised |-> Raised(c), escaped |-> {}]

(* lines 222-243: the fetch and what follows it; resp is what requests.get *)
(* and req.json produce: an exception of requests.get, a status other than *)
(* 200, a body that is not JSON, or a JSON body                            *)
FetchAndCalculate(s, resp, t, n) ==
    IF resp.kind \in {"exception", "non200", "badjson"}
    THEN [self |-> FetchFailed(s), fetch |-> "fail", tide |-> "none",
          branch |-> "none", raised |-> {"fetch"}, escaped |-> {}]
    ELSE With(calculate_tide([s EXCEPT !.data = resp.body], t, n), AfterFetch)

(* lines 244-247: an exception that left calculate_tide would be caught at *)
(* line 246                                                                *)
AfterCalculate(c) ==
    [self |-> c.self, fetch |-> "none", tide |-> c.outcome, branch |-> c.branch,
     raised |-> Raised(c),
     escaped |-> IF c.escaped THEN {"calculate_tide"} ELSE {}]

CalculateOnly(s, t, n) == With(calculate_tide(s, t, n), AfterCalculate)

(* lines 210-247; r, t, n are the readings of the clock at lines 213/215,  *)
(* 264 and 362.  The handler of lines 246-247 keeps whatever was assigned. *)
update(s, resp, r, t, n) ==
    LET s0 == [s EXCEPT !.last_update_at = Some(r)] IN
    IF NeedFetch(s0, r) THEN FetchAndCalculate(s0, resp, t, n)
    ELSE CalculateOnly(s0, t, n)

(* ---------------------------- setup_platform -------------------------- *)
(* Coordinates of the configuration are in millionths of a degree, the    *)
(* rounded coordinates the sensor keeps in hundred-thousandths.            *)
Degrees(d) == d * 100000

(* a configured value that float() rejects *)
NotNumber == 999999999

(* lines 76-77: what the configuration, or the host's own configuration,   *)
(* gives for latitude and longitude                                        *)
Latitudes == {None, Some(NotNumber), Some(-43950000), Some(91000000)}
Longitudes == {None, Some(164999996), Some(164000000), Some(-176500000)}

Configs == {[lat |-> la, lon |-> lo] : la \in Latitudes, lo \in Longitudes}

DefaultConfig == [lat |-> Some(-43950000), lon |-> Some(-176500000)]

(* lines 87-88: round(float(x), 5) *)
CoordRaises(x) == x = NotNumber
Round5(x) == RoundDiv(x, 10)

(* line 94 *)
ValidLatitude(lat) == Degrees(-90) <= lat /\ lat <= Degrees(90)

ValidLongitude_EastOnly(lon) == Degrees(165) <= lon /\ lon <= Degrees(180)

(* line 98 *)
ValidLongitude(lon) ==
    \/ Degrees(165) <= lon /\ lon <= Degrees(180)
    \/ Degrees(-180) <= lon /\ lon <= Degrees(-175)

(* lines 80-100: the checks that end setup_platform before a sensor exists *)
Accepts(cfg) ==
    /\ cfg.lat # None /\ cfg.lon # None
    /\ ~CoordRaises(cfg.lat[1]) /\ ~CoordRaises(cfg.lon[1])
    /\ ValidLatitude(Round5(cfg.lat[1]))
    /\ ValidLongitude(Round5(cfg.lon[1]))

(* the platform before setup_platform ran, after it returned early, and    *)
(* after it created the sensors (lines 102-106) with the rounded           *)
(* coordinates                                                             *)
Pending(cfg) == [state |-> "pending", config |-> cfg, entities |-> None]
Rejected(cfg) == [state |-> "rejected", config |-> cfg, entities |-> None]
Created(cfg) ==
    [state |-> "created", config |-> cfg,
     entities |-> Some([lat |-> Round5(cfg.lat[1]), lon |-> Round5(cfg.lon[1])])]

(* ------------------------------- actions ------------------------------- *)
Init ==
    /\ now = StartTime
    /\ self = InitSelf
    /\ cycle = NoCycle
    /\ platform = Created(DefaultConfig)

(* the host has read a configuration and not yet called setup_platform *)
InitSetup ==
    /\ now = StartTime
    /\ self = InitSelf
    /\ cycle = NoCycle
    /\ platform \in {Pending(cfg) : cfg \in Configs}

(* the clock advances by one unit.  The host polls every SCAN_INTERVAL     *)
(* (300 s), which is shorter than a unit, so a cycle has run at every      *)
(* instant the clock passes.                                               *)
Tick ==
    /\ now < StartTime + MaxTime
    /\ cycle.op = "update" /\ cycle.end = Some(now)
    /\ now' = now + 1
    /\ UNCHANGED <<self, cycle, platform>>

(* one polling cycle; d1 and d2 are the time that passes between the      *)
(* readings of the clock inside the cycle                                  *)
Update(resp, d1, d2) ==
    /\ now + d1 + d2 <= StartTime + MaxTime
    /\ \E u \in {update(self, resp, now, now + d1, now + d1 + d2)} :
       /\ (u.branch = "none" => d2 = 0)
       /\ (u.tide \in {"none", "nodata"} => d1 = 0)
       /\ self' = u.self
       /\ cycle' = [op |-> "update", fetch |-> u.fetch, ref |-> Some(now),
                    tide |-> u.tide,
                    pre |-> [held |-> HoldsSet(self), next_tide |-> self.next_tide],
                    t |-> IF u.tide \in {"none", "nodata"} THEN None ELSE Some(now + d1),
                    bwNow |-> IF u.branch # "none" THEN Some(now + d1 + d2) ELSE None,
                    end |-> Some(now + d1 + d2),
                    branch |-> u.branch, raised |-> u.raised, escaped |-> u.escaped]
    /\ now' = now + d1 + d2

(* the host polls the entities that add_entities registered *)
UpdateCycle ==
    /\ platform.state = "created"
    /\ \E resp \in (IF NeedFetch(self, now) THEN Responses ELSE {NoResponse}) :
          \E d \in Drifts : Update(resp, d[1], d[2])
    /\ UNCHANGED platform

(* lines 70-115: an early return, or the three sensors and the first       *)
(* update() of line 108                                                    *)
SetupPlatform ==
    /\ platform.state = "pending"
    /\ IF Accepts(platform.config)
       THEN /\ platform' = Created(platform.config)
            /\ \E resp \in Responses : \E d \in Drifts : Update(resp, d[1], d[2])
       ELSE /\ platform' = Rejected(platform.config)
            /\ UNCHANGED <<now, self, cycle>>

(* calculate_boat_windows called on its own, against the fields as they are *)
CalculateBoatWindows ==
    /\ platform.state = "created"
    /\ self' = calculate_boat_windows(self, now)
    /\ cycle' = [op |-> "calculate_boat_windows", fetch |-> "none", tide |-> "none",
                 ref |-> None,
                 pre |-> [held |-> HoldsSet(self), next_tide |-> self.next_tide],
                 t |-> None, bwNow |-> Some(now), end |-> Some(now), branch |-> BoatBranch(self, now),
                 raised |-> {}, escaped |-> {}]
    /\ UNCHANGED <<now, platform>>

Next == Tick \/ UpdateCycle

Spec == Init /\ [][Next]_vars

NextDirect == Tick \/ UpdateCycle \/ CalculateBoatWindows

SpecDirect == Init /\ [][NextDirect]_vars

(* lines 216-223, no fetch fails: the source answers every request with   *)
(* the alternating tide table from the start of the day (startDate) on     *)
Successful ==
    {[kind |-> "json",
      body |-> Some(Body(TRUE, RunValues(1, Len(TimeGrid), Alternating)))]}

PollingCycle ==
    /\ platform.state = "created"
    /\ \E resp \in (IF NeedFetch(self, now) THEN Successful ELSE {NoResponse}) :
          \E d \in Drifts : Update(resp, d[1], d[2])
    /\ UNCHANGED platform

NextPolling == Tick \/ PollingCycle

SpecPolling == Init /\ [][NextPolling]_vars

NextSetup == SetupPlatform \/ Tick \/ UpdateCycle

SpecSetup == InitSetup /\ [][NextSetup]_vars

(* --------------------------- the binary sensors ------------------------ *)
(* BoatLaunchSensor.is_on *)
BoatLaunch_is_on == self.safe_to_launch

BoatReturn_is_on_AtMost ==
    IF self.must_return_by = None THEN FALSE
    ELSE 2 * (self.must_return_by[1] - now) <= UnitsPerHour

(* BoatReturnSensor.is_on: remaining hours < 0.5, read at the clock's now *)
BoatReturn_is_on ==
    IF self.must_return_by = None THEN FALSE
    ELSE 2 * (self.must_return_by[1] - now) < UnitsPerHour

TypeOK ==
    /\ now \in StartTime..(StartTime + MaxTime)
    /\ self.safe_to_launch \in BOOLEAN
    /\ Len(self.upcoming_tides) <= UPCOMING_LIMIT

(* ------------------------- vocabulary of the claims -------------------- *)
TideFields(s) ==
    <<s.current_tide_level, s.tide_percent, s.tide_phase, s.last_tide, s.next_tide,
      s.next_high_tide, s.next_low_tide>>

BoatFields(s) ==
    <<s.safe_to_launch, s.safe_window_start, s.safe_window_end,
      s.next_safe_window_start, s.must_return_by>>

TideAbsent(s) == TideFields(s) = <<None, None, None, None, None, None, None>>

WellFormed(values) ==
    \A i \in 1..Len(values) : values[i].time # BadTime /\ values[i].value # BadValue

IsAlternating(values) ==
    \A i \in 2..(Len(values) - 1) :
        (values[i].value - values[i - 1].value) * (values[i + 1].value - values[i].value) < 0

(* a step of update() that is not a stuttering step *)
UpdateStep == cycle'.op = "update" /\ <<self, cycle>>' # <<self, cycle>>

(* the last operation ran calculate_boat_windows with a low tide at T *)
BoatRanWithLow == cycle.bwNow # None /\ self.next_low_tide # None

LowTime == self.next_low_tide[1].time

(* ------------------------------- claims -------------------------------- *)

(* C1: for every low tide at T inside an ascending, alternating held set,  *)
(* with an extremum before and one after it, an update cycle without fetch *)
(* failure at an instant t, T-2h <= t <= T+2h, ends with safe_to_launch.   *)
(* (Stated for the cycles during which the clock does not advance.)        *)
C1_SafeAroundLowTide ==
    ( /\ cycle.op = "update" /\ cycle.fetch # "fail" /\ cycle.ref = cycle.end
      /\ HoldsSet(self) /\ WellFormed(self.data[1].values)
      /\ IsAlternating(self.data[1].values) )
    => \A i \in 2..(Len(self.data[1].values) - 1) :
         LET v == self.data[1].values IN
         ( /\ v[i].value < v[i - 1].value /\ v[i].value < v[i + 1].value
           /\ ParseTime(v[i]) - timedelta(2) <= cycle.ref[1]
           /\ cycle.ref[1] <= ParseTime(v[i]) + timedelta(2) )
         => BoatLaunch_is_on

(* C2: when calculate_tide evaluates a well-formed held set at an instant  *)
(* t with first.time <= t < final.time, the stored last_tide and next_tide *)
(* are adjacent entries i, i+1 of the set with time[i] <= t < time[i+1].   *)
C2_Precondition ==
    /\ cycle.t # None /\ HoldsSet(self) /\ WellFormed(self.data[1].values)
    /\ ParseTime(self.data[1].values[1]) <= cycle.t[1]
    /\ cycle.t[1] < ParseTime(self.data[1].values[Len(self.data[1].values)])

C2_Bracket ==
    C2_Precondition =>
        /\ self.last_tide # None /\ self.next_tide # None
        /\ \E i \in 1..(Len(self.data[1].values) - 1) :
             LET v == self.data[1].values IN
             /\ self.last_tide[1] = TideInfo(ParseTime(v[i]), v[i].value)
             /\ self.next_tide[1] = TideInfo(ParseTime(v[i + 1]), v[i + 1].value)
             /\ ParseTime(v[i]) <= cycle.t[1] /\ cycle.t[1] < ParseTime(v[i + 1])

(* the reference instant is exactly the time of an extremum *)
C2_Witness == C2_Precondition /\ self.last_tide # None /\ self.last_tide[1].time = cycle.t[1]

(* C3, as claimed: a cycle fetches only when no PredictionSet is held or   *)
(* the held next_tide has a time at or before the reference instant; every *)
(* other cycle recomputes from the held set without fetching.              *)
C3_FetchOnlyWhenStale ==
    (cycle.op = "update" /\ cycle.fetch # "none") =>
        \/ ~cycle.pre.held
        \/ cycle.pre.next_tide # None /\ cycle.pre.next_tide[1].time <= cycle.ref[1]

(* C3, amended: a cycle fetches only when no PredictionSet is held, or no  *)
(* next_tide is held, or the held next_tide has a time at or before the    *)
(* reference instant; every other cycle runs calculate_tide on the held    *)
(* data without fetching.                                                  *)
C3_FetchOnlyWhenStaleOrNoNext ==
    /\ (cycle.op = "update" /\ cycle.fetch # "none") =>
           \/ ~cycle.pre.held
           \/ cycle.pre.next_tide = None
           \/ cycle.pre.next_tide[1].time <= cycle.ref[1]
    /\ ( /\ cycle.op = "update" /\ cycle.pre.held /\ cycle.pre.next_tide # None
         /\ cycle.pre.next_tide[1].time > cycle.ref[1] )
       => cycle.fetch = "none" /\ cycle.tide # "none" /\ cycle.t # None /\ HoldsSet(self)

(* a fetch while a set was held and no next_tide was *)
C3_Witness ==
    cycle.op = "update" /\ cycle.fetch = "ok" /\ cycle.pre.held /\ cycle.pre.next_tide = None

(* C4, as claimed: a cycle whose fetch fails ends with data absent, every  *)
(* derived field absent and no exception leaving update().                 *)
C4_FetchFailureClearsAll ==
    cycle.fetch = "fail" =>
        /\ self.data = None
        /\ TideAbsent(self) /\ self.upcoming_tides = <<>>
        /\ BoatFields(self) = <<FALSE, None, None, None, None>>
        /\ cycle.escaped = {}

(* C4, amended: a cycle whose fetch fails ends with data absent, so that   *)
(* available is false, no exception leaves update(), and the derived       *)
(* fields are left exactly as they were before the cycle.                  *)
C4_FetchFailureClearsData ==
    [][(UpdateStep /\ cycle'.fetch = "fail") =>
          /\ self'.data = None
          /\ ~available'
          /\ TideFields(self') = TideFields(self)
          /\ self'.upcoming_tides = self.upcoming_tides
          /\ BoatFields(self') = BoatFields(self)
          /\ cycle'.escaped = {}]_vars

(* a failed fetch after a cycle that had stored a height *)
C4_Witness ==
    cycle.fetch = "fail" /\ cycle.pre.held /\ ~available /\ self.current_tide_level # None

(* C5: when calculate_tide finds no last_tide or no next_tide, no          *)
(* exception leaves it and height, percent, phase, last_tide, next_tide,   *)
(* next_high_tide and next_low_tide are all None afterwards.               *)
C5_NoBracketClearsAll ==
    cycle.tide = "nobracket" => cycle.escaped = {} /\ TideAbsent(self)

(* C6: no exception leaves update(), calculate_tide() or                   *)
(* calculate_boat_windows(); a stage that fails ends without data: a       *)
(* failed fetch with data None, a failed calculate_tide with every tide    *)
(* field None and an empty upcoming list.                                  *)
C6_NoErrorEscapes ==
    /\ cycle.escaped = {}
    /\ "fetch" \in cycle.raised => self.data = None
    /\ "calculate_tide" \in cycle.raised => TideAbsent(self) /\ self.upcoming_tides = <<>>
    /\ "upcoming" \in cycle.raised => self.upcoming_tides = <<>>

(* a malformed record made calculate_tide raise *)
C6_Witness == cycle.op = "update" /\ "calculate_tide" \in cycle.raised /\ available

(* C7: calculate_boat_windows with a low tide at T and T-2h <= now <= T+2h *)
(* sets safe_to_launch, the window T-2h .. T+2h, must_return_by = T+2h and *)
(* no next_safe_window_start.                                              *)
C7_InsideBranch ==
    ( /\ BoatRanWithLow
      /\ LowTime - timedelta(2) <= cycle.bwNow[1]
      /\ cycle.bwNow[1] <= LowTime + timedelta(2) )
    => BoatFields(self) = <<TRUE, Some(LowTime - timedelta(2)), Some(LowTime + timedelta(2)),
                            None, Some(LowTime + timedelta(2))>>

(* the call is made exactly two hours after the low tide *)
C7_Witness ==
    BoatRanWithLow /\ cycle.bwNow[1] = LowTime + timedelta(2) /\ self.safe_to_launch

(* C8: calculate_boat_windows with a low tide at T and now < T-2h clears   *)
(* safe_to_launch and must_return_by and publishes T-2h .. T+2h as the     *)
(* window and T-2h as the next window start.                               *)
C8_BeforeBranch ==
    (BoatRanWithLow /\ cycle.bwNow[1] < LowTime - timedelta(2))
    => BoatFields(self) = <<FALSE, Some(LowTime - timedelta(2)), Some(LowTime + timedelta(2)),
                            Some(LowTime - timedelta(2)), None>>

(* the tide is rising: a low tide has just passed and the next one is     *)
(* more than two hours away                                                *)
C8_Witness ==
    /\ BoatRanWithLow /\ cycle.bwNow[1] < LowTime - timedelta(2)
    /\ self.last_tide # None /\ self.next_tide # None
    /\ self.last_tide[1].value < self.next_tide[1].value

(* C9: calculate_boat_windows with now > T+2h takes the first entry of     *)
(* upcoming_tides, not the first of the list, that is lower than its       *)
(* predecessor and later than now, and publishes its window as current and *)
(* next; without such an entry the three window fields are None; in both   *)
(* cases safe_to_launch is false and must_return_by None.                  *)
C9_Candidates ==
    {i \in 2..Len(self.upcoming_tides) :
        /\ self.upcoming_tides[i].value < self.upcoming_tides[i - 1].value
        /\ FromIsoFormat(self.upcoming_tides[i].time) > cycle.bwNow[1]}

C9_First == CHOOSE i \in C9_Candidates : \A j \in C9_Candidates : i <= j

C9_AfterBranch ==
    (BoatRanWithLow /\ cycle.bwNow[1] > LowTime + timedelta(2))
    => IF C9_Candidates # {}
       THEN LET low == FromIsoFormat(self.upcoming_tides[C9_First].time) IN
            BoatFields(self) = <<FALSE, Some(low - timedelta(2)), Some(low + timedelta(2)),
                                 Some(low - timedelta(2)), None>>
       ELSE BoatFields(self) = <<FALSE, None, None, None, None>>

(* the elapsed window is followed by a low tide in upcoming_tides *)
C9_Witness ==
    BoatRanWithLow /\ cycle.bwNow[1] > LowTime + timedelta(2) /\ C9_Candidates # {}

(* C10: calculate_boat_windows with next_low_tide absent leaves the five   *)
(* boat-window fields as they were.                                        *)
C10_NoLowTideNoChange ==
    [][cycle'.branch = "noop" => BoatFields(self') = BoatFields(self)]_vars

(* the call left a window open that an earlier cycle had opened *)
C10_Witness == cycle.branch = "noop" /\ self.next_low_tide = None /\ self.safe_to_launch

(* C11: in every update cycle in which calculate_tide recomputes tide      *)
(* state (stores a bracket, rewrites the upcoming list, or clears          *)
(* next_low_tide), calculate_boat_windows runs before the cycle ends.      *)
C11_BoatWindowsFollowTide ==
    (cycle.op = "update" /\ cycle.tide # "none") => cycle.branch # "none"

(* the held set was evaluated and a bracket stored; NextIndex is the       *)
(* position of next_tide in the set                                        *)
StoredFromSet ==
    cycle.tide = "stored" /\ HoldsSet(self) /\ WellFormed(self.data[1].values)

NextIndex ==
    CHOOSE i \in 1..Len(self.data[1].values) :
        ParseTime(self.data[1].values[i]) = self.next_tide[1].time

EntryAt(i) ==
    IF i <= Len(self.data[1].values)
    THEN Some(TideInfo(ParseTime(self.data[1].values[i]), self.data[1].values[i].value))
    ELSE None

EntriesPastNext ==
    Scan(self.data[1].values, 1, cycle.t[1], ScanInit).past

Min(a, b) == IF a <= b THEN a ELSE b

C12_Classified ==
    IF self.next_tide[1].value > self.last_tide[1].value
    THEN self.next_high_tide = self.next_tide
    ELSE self.next_low_tide = self.next_tide

(* C12, as claimed: next_tide is next_high_tide if its value is greater    *)
(* than last_tide's and next_low_tide otherwise, and the scan reads        *)
(* exactly two more entries past next_tide (as many as the set has, if     *)
(* fewer) and stops.                                                       *)
C12_TwoMoreEntries ==
    StoredFromSet =>
        /\ C12_Classified
        /\ EntriesPastNext = Min(2, Len(self.data[1].values) - NextIndex)

(* C12, amended: next_tide is next_high_tide if its value is greater than  *)
(* last_tide's and next_low_tide otherwise; the scan reads exactly one     *)
(* more entry, the one that follows next_tide in the set, stores it as the *)
(* other of the two, and stops; without such an entry the other is None.   *)
C12_OneMoreEntry ==
    StoredFromSet =>
        /\ C12_Classified
        /\ EntriesPastNext = Min(1, Len(self.data[1].values) - NextIndex)
        /\ IF self.next_tide[1].value > self.last_tide[1].value
           THEN self.next_low_tide = EntryAt(NextIndex + 1)
           ELSE self.next_high_tide = EntryAt(NextIndex + 1)

(* two entries follow next_tide in the set and the second was not read *)
C12_Witness ==
    /\ StoredFromSet /\ NextIndex + 2 <= Len(self.data[1].values)
    /\ self.next_low_tide = self.next_tide
    /\ self.next_high_tide = EntryAt(NextIndex + 1)

(* positions of the held set whose time is strictly later than the        *)
(* instant calculate_tide read at line 264                                 *)
C13_Future ==
    {i \in 1..Len(self.data[1].values) : ParseTime(self.data[1].values[i]) > cycle.t[1]}

C13_Precondition ==
    /\ cycle.t # None /\ cycle.tide \in {"nobracket", "stored"}
    /\ self.data # None /\ self.data[1].hasValues /\ WellFormed(self.data[1].values)

(* C13: after calculate_tide evaluates a well-formed set at t,             *)
(* upcoming_tides is the first min(14, k) of the k entries with time       *)
(* strictly later than t, in the order of the set; an entry with time = t  *)
(* is not in it.                                                           *)
C13_UpcomingList ==
    C13_Precondition =>
        LET v == self.data[1].values
            k == Cardinality(C13_Future)
        IN
        /\ Len(self.upcoming_tides) = Min(14, k)
        /\ \A j \in 1..Len(self.upcoming_tides) :
              /\ Len(v) - k + j \in C13_Future
              /\ self.upcoming_tides[j] =
                     [time |-> IsoFormat(ParseTime(v[Len(v) - k + j])),
                      value |-> Round2(v[Len(v) - k + j].value)]

(* twenty entries lie in the future and the list has fourteen *)
C13_Witness ==
    /\ C13_Precondition /\ Cardinality(C13_Future) = 20
    /\ Len(self.upcoming_tides) = 14

(* C14: after every update cycle tide_phase and tide_percent are both     *)
(* None or both set, and when set the phase is "low" below 5 percent,      *)
(* "high" above 95 percent, otherwise "increasing" if the stored           *)
(* last_tide is lower than the stored next_tide and "decreasing" if it is  *)
(* higher or equal.                                                        *)
C14_PhaseClassification ==
    cycle.op = "update" =>
        /\ (self.tide_phase = None) <=> (self.tide_percent = None)
        /\ self.tide_percent # None =>
              /\ self.last_tide # None /\ self.next_tide # None
              /\ self.tide_percent[1] < 5 => self.tide_phase[1] = "low"
              /\ self.tide_percent[1] > 95 => self.tide_phase[1] = "high"
              /\ ( /\ 5 <= self.tide_percent[1] /\ self.tide_percent[1] <= 95
                   /\ self.last_tide[1].value < self.next_tide[1].value )
                 => self.tide_phase[1] = "increasing"
              /\ ( /\ 5 <= self.tide_percent[1] /\ self.tide_percent[1] <= 95
                   /\ self.last_tide[1].value >= self.next_tide[1].value )
                 => self.tide_phase[1] = "decreasing"

(* between two extrema of equal height the phase is "decreasing" *)
C14_Witness ==
    /\ cycle.op = "update" /\ self.tide_phase = Some("decreasing")
    /\ self.last_tide[1].value = self.next_tide[1].value

(* C15: whenever tide_percent is set it lies in 0 .. 100; the instant a    *)
(* cycle stored it for lies in [last_tide.time, next_tide.time), so the    *)
(* interpolation ratio is in [0, 1), for rising and falling brackets.      *)
C15_PercentBounds ==
    /\ self.tide_percent # None =>
           0 <= self.tide_percent[1] /\ self.tide_percent[1] <= 100
    /\ cycle.tide = "stored" =>
           /\ self.tide_percent # None
           /\ self.last_tide[1].time <= cycle.t[1]
           /\ cycle.t[1] < self.next_tide[1].time

(* a falling bracket evaluated at the instant of its high tide *)
C15_Witness ==
    /\ cycle.tide = "stored" /\ self.tide_percent = Some(100)
    /\ self.last_tide[1].value > self.next_tide[1].value
    /\ self.last_tide[1].time = cycle.t[1]

(* units from now to the deadline, negative once it has passed *)
C16_Remaining == self.must_return_by[1] - now

(* C16: BoatReturnSensor.is_on is false without must_return_by; with it,   *)
(* is_on is true when less than half an hour remains or the deadline has   *)
(* passed, and false when half an hour or more remains.                    *)
C16_MustReturnSoon ==
    /\ self.must_return_by = None => ~BoatReturn_is_on
    /\ self.must_return_by # None =>
           /\ C16_Remaining <= 0 => BoatReturn_is_on
           /\ (C16_Remaining > 0 /\ C16_Remaining + C16_Remaining < UnitsPerHour)
                 => BoatReturn_is_on
           /\ C16_Remaining + C16_Remaining >= UnitsPerHour => ~BoatReturn_is_on

(* exactly half an hour remains and the sensor is off *)
C16_Witness ==
    /\ self.must_return_by # None /\ C16_Remaining + C16_Remaining = UnitsPerHour
    /\ ~BoatReturn_is_on

(* the configured coordinates are numbers; both are present *)
C17_Numeric ==
    /\ platform.config.lat # None /\ platform.config.lon # None
    /\ platform.config.lat[1] # NotNumber /\ platform.config.lon[1] # NotNumber

(* no sensor exists and nothing was ever fetched or evaluated *)
C17_NothingRan ==
    platform.entities = None /\ self = InitSelf /\ cycle = NoCycle

(* C17, as claimed: setup_platform with a coordinate missing, a latitude   *)
(* outside [-90, 90] or a longitude outside [165, 180] and [-180, -175]    *)
(* creates no sensor and no network call is ever made; only coordinates    *)
(* inside the ranges reach the first update().                             *)
C17_RangeValidation ==
    platform.state # "pending" =>
        IF /\ C17_Numeric
           /\ -90000000 <= platform.config.lat[1] /\ platform.config.lat[1] <= 90000000
           /\ \/ /\ 165000000 <= platform.config.lon[1]
                 /\ platform.config.lon[1] <= 180000000
              \/ /\ -180000000 <= platform.config.lon[1]
                 /\ platform.config.lon[1] <= -175000000
        THEN platform.state = "created" /\ cycle.op = "update"
        ELSE platform.state = "rejected" /\ C17_NothingRan

(* the coordinate rounded to five decimals, in millionths of a degree *)
C17_Rounded(x) == ((x + 5) \div 10) * 10

(* C17, amended: the ranges are those of the coordinates rounded to five  *)
(* decimals.                                                               *)
C17_RoundedValidation ==
    platform.state # "pending" =>
        IF /\ C17_Numeric
           /\ -90000000 <= C17_Rounded(platform.config.lat[1])
           /\ C17_Rounded(platform.config.lat[1]) <= 90000000
           /\ \/ /\ 165000000 <= C17_Rounded(platform.config.lon[1])
                 /\ C17_Rounded(platform.config.lon[1]) <= 180000000
              \/ /\ -180000000 <= C17_Rounded(platform.config.lon[1])
                 /\ C17_Rounded(platform.config.lon[1]) <= -175000000
        THEN platform.state = "created" /\ cycle.op = "update"
        ELSE platform.state = "rejected" /\ C17_NothingRan

(* a longitude west of the service region was rejected *)
C17_Witness ==
    /\ platform.state = "rejected" /\ C17_Numeric
    /\ platform.config.lat[1] = -43950000 /\ platform.config.lon[1] = 164000000
    /\ C17_NothingRan

(* C18: if safe_to_launch is true at the end of an update cycle, the       *)
(* instant the cycle was evaluated at lies in the published window         *)
(* safe_window_start .. safe_window_end, whatever the earlier cycles did.  *)
C18_NoStaleSafe ==
    (cycle.op = "update" /\ self.safe_to_launch) =>
        /\ self.safe_window_start # None /\ self.safe_window_end # None
        /\ self.safe_window_start[1] <= cycle.end[1]
        /\ cycle.ref[1] <= self.safe_window_end[1]

(* C19: with polling at every instant and no failed fetch, a cycle         *)
(* evaluated at t with T + 1.5h < t <= T + 2h, for a low tide at T of the  *)
(* held alternating set, ends with BoatReturnSensor.is_on true.            *)
C19_ReturnWarningReached ==
    ( /\ cycle.op = "update" /\ cycle.end = Some(now)
      /\ HoldsSet(self) /\ WellFormed(self.data[1].values)
      /\ IsAlternating(self.data[1].values) )
    => \A i \in 2..(Len(self.data[1].values) - 1) :
         LET v == self.data[1].values IN
         ( /\ v[i].value < v[i - 1].value /\ v[i].value < v[i + 1].value
           /\ 2 * (cycle.ref[1] - ParseTime(v[i])) > 3 * UnitsPerHour
           /\ cycle.end[1] <= ParseTime(v[i]) + timedelta(2) )
         => BoatReturn_is_on

(* C20: at the end of an update() or calculate_boat_windows() call,        *)
(* safe_to_launch is true exactly when must_return_by is set, and          *)
(* must_return_by, when set, is safe_window_end.                           *)
C20_LaunchDeadlineCoupling ==
    cycle.op \in {"update", "calculate_boat_windows"} =>
        /\ self.safe_to_launch <=> self.must_return_by # None
        /\ self.must_return_by # None => self.must_return_by = self.safe_window_end

(* a cycle has just opened the window *)
C20_Witness ==
    /\ cycle.op = "update" /\ cycle.branch = "inside"
    /\ self.safe_to_launch /\ self.must_return_by # None
    /\ self.must_return_by = self.safe_window_end

(* calculate_boat_windows ran inside calculate_tide, with a low tide, and  *)
(* read the same instant at line 362 as calculate_tide at line 264         *)
C21_SameInstant ==
    /\ cycle.op = "update" /\ cycle.tide = "stored"
    /\ cycle.bwNow # None /\ cycle.bwNow = cycle.t
    /\ self.next_low_tide # None

(* C21: when calculate_boat_windows runs from calculate_tide and the clock *)
(* has not advanced between lines 264 and 362, next_low_tide.time is       *)
(* strictly later than that instant and the branch for an elapsed window   *)
(* (now > next_low_tide.time + 2h) is not taken.                           *)
C21_ElapsedBranchDead ==
    C21_SameInstant =>
        /\ self.next_low_tide[1].time > cycle.t[1]
        /\ cycle.branch \in {"inside", "before"}

(* the low tide is one unit away: as close as it gets *)
C21_Witness ==
    /\ C21_SameInstant /\ self.next_low_tide[1].time = cycle.t[1] + 1
    /\ cycle.branch = "inside"

(* the last cycle ended without a usable bracket: its fetch failed, the    *)
(* body had no values, or no bracket was found                             *)
C22_NoBracket ==
    cycle.op = "update" /\ (cycle.fetch = "fail" \/ cycle.tide \in {"nodata", "nobracket"})

(* the set now held is well-formed and brackets the instant t *)
C22_Brackets(s, t) ==
    /\ HoldsSet(s) /\ WellFormed(s.data[1].values)
    /\ ParseTime(s.data[1].values[1]) <= t
    /\ t < ParseTime(s.data[1].values[Len(s.data[1].values)])

(* C22: an update cycle that follows a cycle that ended without a usable  *)
(* bracket attempts a fetch; when the fetched set brackets the instant of  *)
(* the cycle, the sensor is available afterwards with height, percent,     *)
(* phase and next_tide set.  Cycles are SCAN_INTERVAL apart, so the clock  *)
(* reads later in the following cycle than it did in the one before.       *)
C22_RetryUntilRecovery ==
    [][(C22_NoBracket /\ UpdateStep /\ cycle'.ref[1] > cycle.end[1]) =>
          /\ cycle'.fetch # "none"
          /\ (cycle'.fetch = "ok" /\ cycle'.t # None /\ C22_Brackets(self', cycle'.t[1])) =>
                /\ available' /\ cycle'.tide = "stored"
                /\ self'.current_tide_level # None /\ self'.tide_percent # None
                /\ self'.tide_phase # None /\ self'.next_tide # None
                /\ self'.next_tide[1].time > cycle'.t[1]]_vars

(* a fetch recovered the sensor after a failed one: no data was held when  *)
(* the cycle began, and a next_tide of an earlier evaluation was           *)
C22_Witness ==
    /\ cycle.op = "update" /\ cycle.fetch = "ok" /\ cycle.tide = "stored"
    /\ ~cycle.pre.held /\ cycle.pre.next_tide # None
    /\ available /\ self.current_tide_level # None /\ self.tide_phase # None

=============================================================================
